---- MODULE Spec2Model ----
(***************************************************************************)
(* Model of the FFmpeg metadata plugin (src/src/plugin.ts, src/src/index.ts).*)
(*                                                                         *)
(* Text is a sequence of one-character strings, so that String(), Number() *)
(* and JSON.stringify() are computed, not assumed.  A JavaScript value is a *)
(* record [t, s]: t is its typeof ("undefined" also stands for null), s is *)
(* the text String(value) yields.  A number is held by the canonical       *)
(* decimal text JavaScript prints for it.                                  *)
(***************************************************************************)
EXTENDS Integers, Sequences, FiniteSets, TLC

\* ------------------------------------------------------------------------
\* JavaScript values
\* ------------------------------------------------------------------------
Absent == [t |-> "undefined", s |-> <<>>]

Str(chars) == [t |-> "string", s |-> chars]

Digits == <<"0", "1", "2", "3", "4", "5", "6", "7", "8", "9">>

DigitSet == {Digits[i] : i \in 1..10}

RECURSIVE NatToChars(_)
NatToChars(n) ==
    IF n < 10 THEN <<Digits[n + 1]>>
    ELSE NatToChars(n \div 10) \o <<Digits[(n % 10) + 1]>>

Num(n) == [t |-> "number", s |-> NatToChars(n)]

TrueText == <<"t", "r", "u", "e">>

FalseText == <<"f", "a", "l", "s", "e">>

Bool(b) == [t |-> "boolean", s |-> IF b THEN TrueText ELSE FalseText]

\* value != null
NotNull(v) == v.t # "undefined"

\* if (value)
Truthy(v) ==
    CASE v.t = "undefined" -> FALSE
      [] v.t = "string" -> v.s # <<>>
      [] v.t = "number" -> v.s # <<"0">>
      [] v.t = "boolean" -> v.s = TrueText

\* String(value)
String(v) == v.s

\* block?.field
OptGet(block, field) == IF block = Absent THEN Absent ELSE block[field]

\* ------------------------------------------------------------------------
\* Number(text), for text without sign, exponent, radix prefix or Infinity
\* ------------------------------------------------------------------------
RECURSIVE TrimLeft(_)
TrimLeft(s) == IF s # <<>> /\ Head(s) = " " THEN TrimLeft(Tail(s)) ELSE s

RECURSIVE TrimRight(_)
TrimRight(s) ==
    IF s # <<>> /\ s[Len(s)] = " " THEN TrimRight(SubSeq(s, 1, Len(s) - 1)) ELSE s

Trim(s) == TrimRight(TrimLeft(s))

AllDigits(s) == \A i \in 1..Len(s) : s[i] \in DigitSet

DotPositions(s) == {i \in 1..Len(s) : s[i] = "."}

IntPart(s) ==
    IF DotPositions(s) = {} THEN s
    ELSE SubSeq(s, 1, (CHOOSE i \in DotPositions(s) : TRUE) - 1)

FracPart(s) ==
    IF DotPositions(s) = {} THEN <<>>
    ELSE SubSeq(s, (CHOOSE i \in DotPositions(s) : TRUE) + 1, Len(s))

\* !isNaN(Number(text))
IsNumeric(text) ==
    LET s == Trim(text) IN
        \/ s = <<>>
        \/ /\ Cardinality(DotPositions(s)) <= 1
           /\ AllDigits(IntPart(s))
           /\ AllDigits(FracPart(s))
           /\ Len(IntPart(s)) + Len(FracPart(s)) >= 1

RECURSIVE StripLeadingZeros(_)
StripLeadingZeros(s) ==
    IF Len(s) > 1 /\ Head(s) = "0" THEN StripLeadingZeros(Tail(s)) ELSE s

RECURSIVE StripTrailingZeros(_)
StripTrailingZeros(s) ==
    IF s # <<>> /\ s[Len(s)] = "0"
    THEN StripTrailingZeros(SubSeq(s, 1, Len(s) - 1))
    ELSE s

\* Number(text) of a numeric text, as the number JSON.stringify prints
ToNumber(text) ==
    LET s == Trim(text)
        ip == IF IntPart(s) = <<>> THEN <<"0">> ELSE StripLeadingZeros(IntPart(s))
        fp == StripTrailingZeros(FracPart(s))
    IN  IF s = <<>> THEN [t |-> "number", s |-> <<"0">>]
        ELSE [t |-> "number", s |-> IF fp = <<>> THEN ip ELSE ip \o <<".">> \o fp]

\* ------------------------------------------------------------------------
\* JSON.stringify of a flat object, an ordered list of <<key, value>>
\* (no text of the model holds a quote or a backslash, so nothing is escaped)
\* ------------------------------------------------------------------------
JsonValue(v) == IF v.t = "string" THEN <<"\"">> \o v.s \o <<"\"">> ELSE v.s

RECURSIVE JsonEntries(_)
JsonEntries(obj) ==
    IF obj = <<>> THEN <<>>
    ELSE <<"\"", obj[1][1], "\"", ":">> \o JsonValue(obj[1][2])
         \o (IF Len(obj) > 1 THEN <<",">> ELSE <<>>)
         \o JsonEntries(Tail(obj))

JsonStringify(obj) == <<"{">> \o JsonEntries(obj) \o <<"}">>

\* ------------------------------------------------------------------------
\* Texts the code compares against
\* ------------------------------------------------------------------------
VIDEO == <<"v", "i", "d", "e", "o">>

AUDIO == <<"a", "u", "d", "i", "o">>

SUBTITLE == <<"s", "u", "b", "t", "i", "t", "l", "e">>

EMBEDDEDIMAGE == <<"e", "m", "b", "e", "d", "d", "e", "d", "i", "m", "a", "g", "e">>

NA == <<"N", "/", "A">>

ZeroRate == <<"0", "/", "0">>

\* the order applyCachedMetadata walks the categories in
StreamTypes == <<VIDEO, AUDIO, SUBTITLE, EMBEDDEDIMAGE>>

\* ------------------------------------------------------------------------
\* The flat metadata map: key text -> value text
\* ------------------------------------------------------------------------
DurationKey == <<"fileinfo/duration">>

FormatNameKey == <<"fileinfo/formatName">>

StreamKey(n) == <<"stream/">> \o NatToChars(n)

EmptyMap == <<>>

SetKey(map, key, value) == (key :> value) @@ map

\* ------------------------------------------------------------------------
\* Fresh path: FFprobe record -> metadata map and cache object
\* ------------------------------------------------------------------------
\* the category of a stream, or Absent when the loop skips it
StreamTypeOf(stream) ==
    LET codecType == IF Truthy(stream.codec_type) THEN String(stream.codec_type) ELSE <<>>
    IN  IF codecType = VIDEO THEN Str(VIDEO)
        ELSE IF codecType = AUDIO THEN Str(AUDIO)
        ELSE IF codecType = SUBTITLE THEN Str(SUBTITLE)
        ELSE IF codecType = EMBEDDEDIMAGE THEN Str(EMBEDDEDIMAGE)
        ELSE Absent

Field(cond, key, value) == IF cond THEN << <<key, value>> >> ELSE <<>>

CommonFields(stream) ==
    LET forced == OptGet(stream.disposition, "forced")
        default == OptGet(stream.disposition, "default")
        language == OptGet(stream.tags, "language")
        title == OptGet(stream.tags, "title")
    IN  Field(Truthy(stream.codec_name), "codec", Str(String(stream.codec_name)))
        \o Field(NotNull(stream.index), "index", stream.index)
        \o Field(Truthy(stream.duration), "duration", Str(String(stream.duration)))
        \o Field(NotNull(forced), "forced", Bool(forced = Num(1)))
        \o Field(NotNull(default), "default", Bool(default = Num(1)))
        \o Field(Truthy(language), "language", Str(String(language)))
        \o Field(Truthy(title), "title", Str(String(title)))

\* video fields taken whenever they are truthy
VideoFieldsUnfiltered(stream) ==
    LET rotate == OptGet(stream.tags, "rotate")
    IN  Field(Truthy(stream.width), "width", stream.width)
        \o Field(Truthy(stream.height), "height", stream.height)
        \o Field(Truthy(stream.bit_rate), "bitrate", Str(String(stream.bit_rate)))
        \o Field(Truthy(stream.avg_frame_rate), "frameRate",
                 Str(String(stream.avg_frame_rate)))
        \o Field(Truthy(rotate), "rotation", Str(String(rotate)))

VideoFields(stream) ==
    LET rotate == OptGet(stream.tags, "rotate")
    IN  Field(Truthy(stream.width) /\ stream.width # Str(NA), "width", stream.width)
        \o Field(Truthy(stream.height) /\ stream.height # Str(NA), "height", stream.height)
        \o Field(Truthy(stream.bit_rate) /\ stream.bit_rate # Str(NA),
                 "bitrate", Str(String(stream.bit_rate)))
        \o Field(Truthy(stream.avg_frame_rate) /\ stream.avg_frame_rate # Str(ZeroRate),
                 "frameRate", Str(String(stream.avg_frame_rate)))
        \o Field(Truthy(rotate), "rotation", Str(String(rotate)))

AudioFields(stream) ==
    Field(Truthy(stream.sample_rate), "sampleRate", Str(String(stream.sample_rate)))
    \o Field(Truthy(stream.channel_layout), "channelLayout",
             Str(String(stream.channel_layout)))

\* streamData, in insertion order
BuildStreamData(stream, streamType) ==
    << <<"type", streamType>> >>
    \o CommonFields(stream) \o VideoFields(stream) \o AudioFields(stream)

RECURSIVE StreamCacheOf(_)
\* streamCache: every field but type, stringified
StreamCacheOf(streamData) ==
    IF streamData = <<>> THEN <<>>
    ELSE (IF streamData[1][1] # "type"
          THEN << <<streamData[1][1], String(streamData[1][2])>> >>
          ELSE <<>>)
         \o StreamCacheOf(Tail(streamData))

CategoryOf(streamdetails, category) ==
    IF category \in DOMAIN streamdetails THEN streamdetails[category] ELSE EmptyMap

RECURSIVE CountCached(_, _)
\* the entries of the categories listed
CountCached(streamdetails, types) ==
    IF types = <<>> THEN 0
    ELSE Cardinality(DOMAIN CategoryOf(streamdetails, Head(types)))
         + CountCached(streamdetails, Tail(types))

\* a cache keyed by the number of streams cached so far in any category
CacheStreamGlobalIndex(fileinfo, streamType, streamData) ==
    LET category == CategoryOf(fileinfo.streamdetails, String(streamType))
        typeStreamIndex == CountCached(fileinfo.streamdetails, StreamTypes)
    IN  [fileinfo EXCEPT !.streamdetails =
            SetKey(@, String(streamType),
                   SetKey(category, typeStreamIndex, StreamCacheOf(streamData)))]

\* fileinfo.streamdetails[streamType][typeStreamIndex] = streamCache
CacheStream(fileinfo, streamType, streamData) ==
    LET category == CategoryOf(fileinfo.streamdetails, String(streamType))
        typeStreamIndex == Cardinality(DOMAIN category)
    IN  [fileinfo EXCEPT !.streamdetails =
            SetKey(@, String(streamType),
                   SetKey(category, typeStreamIndex, StreamCacheOf(streamData)))]

RECURSIVE ProcessStreamsCountsSkipped(_, _, _, _)
\* a loop whose counter also counts the streams it skips
ProcessStreamsCountsSkipped(streams, metadata, fileinfo, globalStreamIndex) ==
    IF streams = <<>> THEN [metadata |-> metadata, fileinfo |-> fileinfo]
    ELSE LET stream == Head(streams) IN
         IF stream = Absent \/ StreamTypeOf(stream) = Absent
         THEN ProcessStreamsCountsSkipped(Tail(streams), metadata, fileinfo,
                                          globalStreamIndex + 1)
         ELSE LET streamData == BuildStreamData(stream, StreamTypeOf(stream)) IN
              ProcessStreamsCountsSkipped(
                  Tail(streams),
                  SetKey(metadata, StreamKey(globalStreamIndex), JsonStringify(streamData)),
                  CacheStream(fileinfo, StreamTypeOf(stream), streamData),
                  globalStreamIndex + 1)

RECURSIVE ProcessStreams(_, _, _, _)
\* the loop over data.streams
ProcessStreams(streams, metadata, fileinfo, globalStreamIndex) ==
    IF streams = <<>> THEN [metadata |-> metadata, fileinfo |-> fileinfo]
    ELSE LET stream == Head(streams) IN
         IF stream = Absent \/ StreamTypeOf(stream) = Absent
         THEN ProcessStreams(Tail(streams), metadata, fileinfo, globalStreamIndex)
         ELSE LET streamData == BuildStreamData(stream, StreamTypeOf(stream)) IN
              ProcessStreams(
                  Tail(streams),
                  SetKey(metadata, StreamKey(globalStreamIndex), JsonStringify(streamData)),
                  CacheStream(fileinfo, StreamTypeOf(stream), streamData),
                  globalStreamIndex + 1)

\* metadata and fileinfo as process builds them from the FFprobe record
FreshResult(data) ==
    LET duration == OptGet(data.format, "duration")
        formatName == OptGet(data.format, "format_name")
        md1 == IF NotNull(duration)
               THEN SetKey(EmptyMap, DurationKey, String(duration)) ELSE EmptyMap
        md2 == IF Truthy(formatName)
               THEN SetKey(md1, FormatNameKey, String(formatName)) ELSE md1
        fileinfo == [duration |-> IF NotNull(duration) THEN Str(String(duration)) ELSE Absent,
                     formatName |-> IF Truthy(formatName) THEN Str(String(formatName))
                                    ELSE Absent,
                     streamdetails |-> EmptyMap]
    IN  ProcessStreams(data.streams, md2, fileinfo, 0)

\* ------------------------------------------------------------------------
\* Cache-hit path: applyCachedMetadata
\* ------------------------------------------------------------------------
\* a cached text back to boolean, number or text
\* a decode that brings back numbers only
DecodeValueNumbersOnly(value) ==
    IF IsNumeric(value) /\ value # <<>> THEN ToNumber(value)
    ELSE Str(value)

DecodeValue(value) ==
    IF value = TrueText THEN Bool(TRUE)
    ELSE IF value = FalseText THEN Bool(FALSE)
    ELSE IF IsNumeric(value) /\ value # <<>> THEN ToNumber(value)
    ELSE Str(value)

DecodeStream(streamType, stream) ==
    << <<"type", Str(streamType)>> >>
    \o [i \in 1..Len(stream) |-> <<stream[i][1], DecodeValue(stream[i][2])>>]

Min(S) == CHOOSE x \in S : \A y \in S : x <= y

RECURSIVE ApplyCategory(_, _, _, _, _)
\* Object.entries(streams) of one category, integer keys ascending
ApplyCategory(streamType, streams, keys, metadata, globalStreamIndex) ==
    IF keys = {} THEN [metadata |-> metadata, next |-> globalStreamIndex]
    ELSE ApplyCategory(
             streamType, streams, keys \ {Min(keys)},
             SetKey(metadata, StreamKey(globalStreamIndex),
                    JsonStringify(DecodeStream(streamType, streams[Min(keys)]))),
             globalStreamIndex + 1)

RECURSIVE ApplyCategories(_, _, _, _)
ApplyCategories(types, streamdetails, metadata, globalStreamIndex) ==
    IF types = <<>> THEN metadata
    ELSE LET streams == CategoryOf(streamdetails, Head(types))
             done == ApplyCategory(Head(types), streams, DOMAIN streams,
                                   metadata, globalStreamIndex)
         IN  ApplyCategories(Tail(types), streamdetails, done.metadata, done.next)

\* the metadata map applyCachedMetadata hands to mergeMetadata
ApplyCachedMap(fileinfo) ==
    LET md1 == IF NotNull(fileinfo.duration)
               THEN SetKey(EmptyMap, DurationKey, String(fileinfo.duration)) ELSE EmptyMap
        md2 == IF Truthy(fileinfo.formatName)
               THEN SetKey(md1, FormatNameKey, String(fileinfo.formatName)) ELSE md1
    IN  ApplyCategories(StreamTypes, fileinfo.streamdetails, md2, 0)

\* ------------------------------------------------------------------------
\* Sample FFprobe records
\* ------------------------------------------------------------------------
NoDisposition == Absent

NoTags == Absent

BareStream ==
    [codec_type |-> Absent, codec_name |-> Absent, index |-> Absent, duration |-> Absent,
     width |-> Absent, height |-> Absent, bit_rate |-> Absent, avg_frame_rate |-> Absent,
     sample_rate |-> Absent, channel_layout |-> Absent,
     disposition |-> NoDisposition, tags |-> NoTags]

H264 == <<"h", "2", "6", "4">>

AAC == <<"a", "a", "c">>

SimpleVideo ==
    [BareStream EXCEPT !.codec_type = Str(VIDEO), !.codec_name = Str(H264),
                       !.index = Num(0), !.width = Num(320), !.height = Num(240)]

SimpleAudio ==
    [BareStream EXCEPT !.codec_type = Str(AUDIO), !.codec_name = Str(AAC),
                       !.index = Num(1),
                       !.sample_rate = Str(<<"4", "4", "1", "0", "0">>),
                       !.channel_layout = Str(<<"s", "t", "e", "r", "e", "o">>)]

MovMp4 == <<"m", "o", "v", ",", "m", "p", "4">>

SimpleMp4 ==
    [format |-> [duration |-> Num(2), format_name |-> Str(MovMp4)],
     streams |-> <<SimpleVideo, SimpleAudio>>]

SwappedMp4 == [SimpleMp4 EXCEPT !.streams = <<SimpleAudio, SimpleVideo>>]

NoStreams == [format |-> Absent, streams |-> <<>>]

\* sentinels in every filtered field
SentinelStream ==
    [BareStream EXCEPT !.codec_name = Str(H264), !.index = Num(0),
                       !.width = Str(NA), !.height = Str(NA), !.bit_rate = Str(NA),
                       !.avg_frame_rate = Str(ZeroRate)]

\* sentinels in width and avg_frame_rate, values in height and bit_rate
HalfSentinelStream ==
    [SimpleVideo EXCEPT !.width = Str(NA), !.avg_frame_rate = Str(ZeroRate),
                        !.bit_rate = Str(<<"1", "2", "8", "0", "0", "0">>)]

\* disposition flags, tags and the text fields that look like numbers
FlaggedStream ==
    [BareStream EXCEPT !.index = Num(2), !.duration = Str(<<"1", ".", "5", "0">>),
                       !.bit_rate = Str(<<"1", "2", "8", "0", "0", "0">>),
                       !.avg_frame_rate = Str(<<"3", "0", "/", "1">>),
                       !.disposition = [forced |-> Num(1), default |-> Num(0)],
                       !.tags = [language |-> Str(<<"e", "n", "g">>),
                                 title |-> Str(TrueText),
                                 rotate |-> Str(<<"9", "0">>)]]

\* zero and empty values
ZeroStream ==
    [BareStream EXCEPT !.codec_name = Str(<<>>), !.index = Num(0), !.width = Num(0),
                       !.height = Num(0),
                       !.disposition = [forced |-> Num(0), default |-> Absent],
                       !.tags = [language |-> Absent, title |-> Str(<<" ">>),
                                 rotate |-> Absent]]

DataType == <<"d", "a", "t", "a">>

Typed(stream, codecType) == [stream EXCEPT !.codec_type = codecType]

\* the entries data.streams may hold: a null, streams of the four categories,
\* and streams of another or of no codec type
RawStreams ==
    {Absent, BareStream, Typed(BareStream, Str(DataType)), Typed(SimpleVideo, Str(DataType)),
     SimpleVideo, SimpleAudio, HalfSentinelStream,
     Typed(SentinelStream, Str(VIDEO)), Typed(SentinelStream, Str(AUDIO)),
     Typed(FlaggedStream, Str(VIDEO)), Typed(FlaggedStream, Str(AUDIO)),
     Typed(FlaggedStream, Str(SUBTITLE)),
     Typed(ZeroStream, Str(VIDEO)), Typed(ZeroStream, Str(EMBEDDEDIMAGE))}

RawFormats ==
    {Absent, [duration |-> Num(0), format_name |-> Str(<<>>)],
     [duration |-> Num(2), format_name |-> Str(MovMp4)]}

MaxStreams == 2

RECURSIVE StreamLists(_)
StreamLists(n) ==
    IF n = 0 THEN {<<>>}
    ELSE StreamLists(n - 1)
         \cup {Append(l, x) : l \in {m \in StreamLists(n - 1) : Len(m) = n - 1},
                               x \in RawStreams}

\* every FFprobe record of at most MaxStreams streams
ProbeRecords == [format : RawFormats, streams : StreamLists(MaxStreams)]

\* what FFprobe returns in the orchestration runs
ProbeSamples == {SimpleMp4, SwappedMp4, NoStreams}

\* ------------------------------------------------------------------------
\* Requests
\* ------------------------------------------------------------------------
Tasks == {"t1", "t2"}

Cids == {"c1"}

H1 == <<"h", "1">>

H2 == <<"h", "2">>

FileTypes == {Absent, Str(AUDIO), Str(VIDEO)}

ExistingDurations == {Absent, Str(<<>>), Str(<<"2", ".", "0">>)}

ExistingHashes == {Absent, Str(<<>>), Str(H1), Str(H2)}

\* request.existingMeta: undefined, or the fields process reads
ExistingMetas ==
    {Absent} \cup
    [fileType : FileTypes, fileinfo_duration : ExistingDurations,
     cid_midhash256 : ExistingHashes]

FilePath == "/files/simple.mp4"

CallbackUrl == "http://meta-sort/callback"

MetaCoreUrl == "http://meta-core"

\* a body posted to /process; the names in absent are not in the body at all
\* and read as undefined
NoRequest ==
    [taskId |-> "", cid |-> "", filePath |-> "", callbackUrl |-> "",
     metaCoreUrl |-> "", absent |-> {}, existingMeta |-> Absent]

\* bodies with the five required fields
Requests(t) ==
    [taskId : {t}, cid : Cids, filePath : {FilePath}, callbackUrl : {CallbackUrl},
     metaCoreUrl : {MetaCoreUrl}, absent : {{}}, existingMeta : ExistingMetas]

RequiredFields == {"taskId", "cid", "filePath", "callbackUrl", "metaCoreUrl"}

\* a video with a midhash, which process would probe
ProbeableMeta ==
    [fileType |-> Str(VIDEO), fileinfo_duration |-> Absent,
     cid_midhash256 |-> Str(H1)]

GoodBody(t) ==
    [taskId |-> t, cid |-> "c1", filePath |-> FilePath, callbackUrl |-> CallbackUrl,
     metaCoreUrl |-> MetaCoreUrl, absent |-> {}, existingMeta |-> ProbeableMeta]

\* bodies with one required field left out or empty, and the empty body
BadBodies(t) ==
    {[GoodBody(t) EXCEPT !.absent = {name}] : name \in RequiredFields}
    \cup {[GoodBody(t) EXCEPT ![name] = ""] : name \in RequiredFields}
    \cup {[NoRequest EXCEPT !.absent = RequiredFields]}

\* what may be posted to /process
Bodies(t) == Requests(t) \cup BadBodies(t)

\* ------------------------------------------------------------------------
\* The cache directory (readJson / writeJson) and the meta-core store
\* ------------------------------------------------------------------------
Missing == [kind |-> "missing", value |-> <<>>]

Corrupt == [kind |-> "corrupt", value |-> <<>>]

Json(value) == [kind |-> "json", value |-> value]

\* `${midhash}.json`
CacheFile(midhash) == String(midhash) \o <<".json">>

CacheFiles == {CacheFile(Str(H1)), CacheFile(Str(H2))}

\* thrown values: an Error with a message, or a bare text
Thrown ==
    {[instanceofError |-> TRUE, text |-> "ffprobe exited with code 1"],
     [instanceofError |-> FALSE, text |-> "ffprobe was killed with signal SIGKILL"]}

IoErrors == {[instanceofError |-> TRUE, text |-> "EIO"]}

StoreErrors == {[instanceofError |-> TRUE, text |-> "meta-core unreachable"]}

\* a catch block that reads only error.message
ErrorMessageOfErrorOnly(error) ==
    IF error.instanceofError THEN error.text ELSE "undefined"

\* error instanceof Error ? error.message : String(error)
ErrorMessage(error) == error.text

NoText == ""

VARIABLES
    pc,          \* where each invocation of process is suspended
    request,     \* the body posted to /process, which is its ProcessRequest
    reply,       \* what the /process handler answered
    cachedData,  \* what readJson returned to it
    metadata,    \* the metadata map it built
    fileinfo,    \* the cache object it built
    probeCalls,  \* runFFprobe calls it made
    readCalls,   \* readJson calls it made
    writeCalls,  \* writeJson calls it made
    mergeCalls,  \* the maps it passed to mergeMetadata, in order
    merged,      \* whether a mergeMetadata call of it succeeded
    callbacks,   \* the payloads it passed to sendCallback, in order
    delivered,   \* whether the POST of each of them reached callbackUrl
    settled,     \* how each call it awaited settled, in order
    cache,       \* cache file name -> content
    store        \* cid -> merged metadata

vars == <<pc, request, reply, cachedData, metadata, fileinfo, probeCalls, readCalls,
          writeCalls, mergeCalls, merged, callbacks, delivered, settled, cache, store>>

outbox == <<callbacks, delivered>>

locals == <<cachedData, metadata, fileinfo>>

counters == <<probeCalls, readCalls, writeCalls, mergeCalls, merged>>

NoFileinfo == [duration |-> Absent, formatName |-> Absent, streamdetails |-> EmptyMap]

NoReply == [status |-> "", error |-> ""]

Accepted == [status |-> "accepted", error |-> ""]

Rejected == [status |-> "rejected", error |-> "Missing required fields"]

InitTasks ==
    /\ pc = [t \in Tasks |-> "idle"]
    /\ request = [t \in Tasks |-> NoRequest]
    /\ reply = [t \in Tasks |-> NoReply]
    /\ delivered = [t \in Tasks |-> <<>>]
    /\ cachedData = [t \in Tasks |-> Absent]
    /\ metadata = [t \in Tasks |-> EmptyMap]
    /\ fileinfo = [t \in Tasks |-> NoFileinfo]
    /\ probeCalls = [t \in Tasks |-> 0]
    /\ readCalls = [t \in Tasks |-> 0]
    /\ writeCalls = [t \in Tasks |-> 0]
    /\ mergeCalls = [t \in Tasks |-> <<>>]
    /\ merged = [t \in Tasks |-> FALSE]
    /\ callbacks = [t \in Tasks |-> <<>>]
    /\ settled = [t \in Tasks |-> <<>>]
    /\ store = [c \in Cids |-> EmptyMap]

\* cache files left by earlier runs: none, a damaged one, or a written entry
InitialContents == {Missing, Corrupt, Json(FreshResult(SimpleMp4).fileinfo)}

Init ==
    /\ InitTasks
    /\ cache \in [CacheFiles -> InitialContents]

\* ------------------------------------------------------------------------
\* sendCallback as index.ts passes it: a POST to callbackUrl whose failure is
\* logged and swallowed, so it never throws
\* ------------------------------------------------------------------------
Payload(taskId, status, reason, error) ==
    [taskId |-> taskId, status |-> status, reason |-> reason, error |-> error]

SendCallback(t, payload) ==
    \E ok \in BOOLEAN :
        /\ callbacks' = [callbacks EXCEPT ![t] = Append(@, payload)]
        /\ delivered' = [delivered EXCEPT ![t] = Append(@, ok)]

NoError == [instanceofError |-> FALSE, text |-> NoText]

NoValue == <<>>

\* the awaited call op resolved with a value ("null": readJson found no file)
\* or threw an error
Settle(t, op, outcome, value, error) ==
    settled' = [settled EXCEPT ![t] =
        Append(@, [op |-> op, outcome |-> outcome, value |-> value, error |-> error])]

\* a catch block that logs the error and sends nothing
CatchSilent(t, error) ==
    /\ pc' = [pc EXCEPT ![t] = "done"]
    /\ UNCHANGED outbox

\* the catch block of process
Catch(t, error) ==
    /\ SendCallback(t, Payload(request[t].taskId, "failed", NoText, ErrorMessage(error)))
    /\ pc' = [pc EXCEPT ![t] = "done"]

FileType(req) == OptGet(req.existingMeta, "fileType")

ExistingDuration(req) == OptGet(req.existingMeta, "fileinfo_duration")

Midhash(req) == OptGet(req.existingMeta, "cid_midhash256")

\* a guard that skips only what is marked as audio
NotVideoOnlyAudio(req) == FileType(req) = Str(AUDIO)

\* fileType !== 'video'
NotVideo(req) == FileType(req) # Str(VIDEO)

\* a guard that looks the duration up under a key no request carries
AlreadyProcessedWrongKey(req) == Truthy(Absent)

\* a guard that reads the duration as a number
AlreadyProcessedNumeric(req) ==
    /\ NotNull(ExistingDuration(req))
    /\ Truthy(ToNumber(String(ExistingDuration(req))))

\* existingMeta?.['fileinfo/duration']
AlreadyProcessed(req) == Truthy(ExistingDuration(req))

\* if (midhash)
HasMidhash(req) == Truthy(Midhash(req))

\* ------------------------------------------------------------------------
\* POST /process
\* ------------------------------------------------------------------------
\* !field, for a field of the body
Blank(body, name) == name \in body.absent \/ body[name] = ""

\* a handler that checks that the fields are there, not that they are filled
MissingRequiredAbsentOnly(body) == \E name \in RequiredFields : name \in body.absent

\* !taskId || !cid || !filePath || !callbackUrl || !metaCoreUrl
MissingRequired(body) == \E name \in RequiredFields : Blank(body, name)

\* the handler answers 'rejected' and returns; processFile is not called
Reject(t, body) ==
    /\ pc[t] = "idle"
    /\ reply[t] = NoReply
    /\ MissingRequired(body)
    /\ request' = [request EXCEPT ![t] = body]
    /\ reply' = [reply EXCEPT ![t] = Rejected]
    /\ UNCHANGED <<pc, locals, counters, outbox, settled, cache, store>>

\* ------------------------------------------------------------------------
\* The handler calls processFile and answers 'accepted': process, from its
\* entry to its first suspension
\* ------------------------------------------------------------------------
SkipNotVideo(t, req) ==
    /\ pc[t] = "idle"
    /\ reply[t] = NoReply
    /\ ~MissingRequired(req)
    /\ reply' = [reply EXCEPT ![t] = Accepted]
    /\ NotVideo(req)
    /\ request' = [request EXCEPT ![t] = req]
    /\ SendCallback(t, Payload(req.taskId, "skipped", "Not a video file", NoText))
    /\ pc' = [pc EXCEPT ![t] = "done"]
    /\ UNCHANGED <<locals, counters, settled, cache, store>>

SkipAlreadyProcessed(t, req) ==
    /\ pc[t] = "idle"
    /\ reply[t] = NoReply
    /\ ~MissingRequired(req)
    /\ reply' = [reply EXCEPT ![t] = Accepted]
    /\ ~NotVideo(req)
    /\ AlreadyProcessed(req)
    /\ request' = [request EXCEPT ![t] = req]
    /\ SendCallback(t, Payload(req.taskId, "skipped", "Already processed", NoText))
    /\ pc' = [pc EXCEPT ![t] = "done"]
    /\ UNCHANGED <<locals, counters, settled, cache, store>>

\* midhash is set: readJson is called
StartReadCache(t, req) ==
    /\ pc[t] = "idle"
    /\ reply[t] = NoReply
    /\ ~MissingRequired(req)
    /\ reply' = [reply EXCEPT ![t] = Accepted]
    /\ ~NotVideo(req)
    /\ ~AlreadyProcessed(req)
    /\ HasMidhash(req)
    /\ request' = [request EXCEPT ![t] = req]
    /\ readCalls' = [readCalls EXCEPT ![t] = @ + 1]
    /\ pc' = [pc EXCEPT ![t] = "readJson"]
    /\ UNCHANGED <<locals, probeCalls, writeCalls, mergeCalls, merged, outbox,
                   settled, cache, store>>

\* no midhash: runFFprobe is called
StartProbe(t, req) ==
    /\ pc[t] = "idle"
    /\ reply[t] = NoReply
    /\ ~MissingRequired(req)
    /\ reply' = [reply EXCEPT ![t] = Accepted]
    /\ ~NotVideo(req)
    /\ ~AlreadyProcessed(req)
    /\ ~HasMidhash(req)
    /\ request' = [request EXCEPT ![t] = req]
    /\ probeCalls' = [probeCalls EXCEPT ![t] = @ + 1]
    /\ pc' = [pc EXCEPT ![t] = "runFFprobe"]
    /\ UNCHANGED <<locals, readCalls, writeCalls, mergeCalls, merged, outbox,
                   settled, cache, store>>

\* ------------------------------------------------------------------------
\* readJson settles
\* ------------------------------------------------------------------------
\* one cache file for every midhash
TaskFileShared(t) == CacheFile(Str(H1))

TaskFile(t) == CacheFile(Midhash(request[t]))

\* metaCore.mergeMetadata(cid, metadata) resolving: the keys are merged in
MergeInto(old, new) == new @@ old

\* a process that reads the entry and probes all the same
ReadCacheHitReprobe(t) ==
    /\ pc[t] = "readJson"
    /\ cache[TaskFile(t)].kind = "json"
    /\ cachedData' = [cachedData EXCEPT ![t] = cache[TaskFile(t)]]
    /\ probeCalls' = [probeCalls EXCEPT ![t] = @ + 1]
    /\ pc' = [pc EXCEPT ![t] = "runFFprobe"]
    /\ Settle(t, "readJson", "value", cache[TaskFile(t)].value, NoError)
    /\ UNCHANGED <<request, reply, metadata, fileinfo, readCalls, writeCalls, mergeCalls,
                   merged, outbox, cache, store>>

\* a process that removes the entry once it has read it
ReadCacheHitConsumes(t) ==
    /\ pc[t] = "readJson"
    /\ cache[TaskFile(t)].kind = "json"
    /\ cachedData' = [cachedData EXCEPT ![t] = cache[TaskFile(t)]]
    /\ metadata' = [metadata EXCEPT ![t] = ApplyCachedMap(cache[TaskFile(t)].value)]
    /\ mergeCalls' = [mergeCalls EXCEPT ![t] =
                         Append(@, ApplyCachedMap(cache[TaskFile(t)].value))]
    /\ pc' = [pc EXCEPT ![t] = "applyCachedMetadata"]
    /\ Settle(t, "readJson", "value", cache[TaskFile(t)].value, NoError)
    /\ cache' = [cache EXCEPT ![TaskFile(t)] = Missing]
    /\ UNCHANGED <<request, reply, fileinfo, probeCalls, readCalls, writeCalls, merged,
                   outbox, store>>

\* a stored entry: applyCachedMetadata builds the map and calls mergeMetadata
ReadCacheHit(t) ==
    /\ pc[t] = "readJson"
    /\ cache[TaskFile(t)].kind = "json"
    /\ cachedData' = [cachedData EXCEPT ![t] = cache[TaskFile(t)]]
    /\ metadata' = [metadata EXCEPT ![t] = ApplyCachedMap(cache[TaskFile(t)].value)]
    /\ mergeCalls' = [mergeCalls EXCEPT ![t] =
                         Append(@, ApplyCachedMap(cache[TaskFile(t)].value))]
    /\ pc' = [pc EXCEPT ![t] = "applyCachedMetadata"]
    /\ Settle(t, "readJson", "value", cache[TaskFile(t)].value, NoError)
    /\ UNCHANGED <<request, reply, fileinfo, probeCalls, readCalls, writeCalls, merged,
                   outbox, cache, store>>

\* no file: readJson returns null and runFFprobe is called
ReadCacheMiss(t) ==
    /\ pc[t] = "readJson"
    /\ cache[TaskFile(t)].kind = "missing"
    /\ probeCalls' = [probeCalls EXCEPT ![t] = @ + 1]
    /\ pc' = [pc EXCEPT ![t] = "runFFprobe"]
    /\ Settle(t, "readJson", "null", NoValue, NoError)
    /\ UNCHANGED <<request, reply, locals, readCalls, writeCalls, mergeCalls, merged,
                   outbox, cache, store>>

\* a damaged file: readJson fails inside the try block of process
ReadCacheThrow(t, error) ==
    /\ pc[t] = "readJson"
    /\ cache[TaskFile(t)].kind = "corrupt"
    /\ Settle(t, "readJson", "throw", NoValue, error)
    /\ Catch(t, error)
    /\ UNCHANGED <<request, reply, locals, counters, cache, store>>

\* mergeMetadata of applyCachedMetadata resolves
MergeCachedOk(t) ==
    /\ pc[t] = "applyCachedMetadata"
    /\ Settle(t, "mergeMetadata", "value", NoValue, NoError)
    /\ store' = [store EXCEPT ![request[t].cid] = MergeInto(@, metadata[t])]
    /\ merged' = [merged EXCEPT ![t] = TRUE]
    /\ SendCallback(t, Payload(request[t].taskId, "completed", NoText, NoText))
    /\ pc' = [pc EXCEPT ![t] = "done"]
    /\ UNCHANGED <<request, reply, locals, probeCalls, readCalls, writeCalls, mergeCalls, cache>>

MergeCachedFail(t, error) ==
    /\ pc[t] = "applyCachedMetadata"
    /\ Settle(t, "mergeMetadata", "throw", NoValue, error)
    /\ Catch(t, error)
    /\ UNCHANGED <<request, reply, locals, counters, cache, store>>

\* ------------------------------------------------------------------------
\* Fresh path
\* ------------------------------------------------------------------------
\* runFFprobe resolves: the maps are built and mergeMetadata is called
ProbeOk(t, data) ==
    /\ pc[t] = "runFFprobe"
    /\ Settle(t, "runFFprobe", "value", data, NoError)
    /\ metadata' = [metadata EXCEPT ![t] = FreshResult(data).metadata]
    /\ fileinfo' = [fileinfo EXCEPT ![t] = FreshResult(data).fileinfo]
    /\ mergeCalls' = [mergeCalls EXCEPT ![t] = Append(@, FreshResult(data).metadata)]
    /\ pc' = [pc EXCEPT ![t] = "mergeMetadata"]
    /\ UNCHANGED <<request, reply, cachedData, probeCalls, readCalls, writeCalls, merged,
                   outbox, cache, store>>

ProbeFail(t, error) ==
    /\ pc[t] = "runFFprobe"
    /\ Settle(t, "runFFprobe", "throw", NoValue, error)
    /\ Catch(t, error)
    /\ UNCHANGED <<request, reply, locals, counters, cache, store>>

\* a process that reports 'completed' as soon as the publish is done and
\* writes the cache afterwards
MergeOkCallbackFirst(t) ==
    /\ pc[t] = "mergeMetadata"
    /\ Settle(t, "mergeMetadata", "value", NoValue, NoError)
    /\ store' = [store EXCEPT ![request[t].cid] = MergeInto(@, metadata[t])]
    /\ merged' = [merged EXCEPT ![t] = TRUE]
    /\ SendCallback(t, Payload(request[t].taskId, "completed", NoText, NoText))
    /\ IF HasMidhash(request[t])
       THEN /\ writeCalls' = [writeCalls EXCEPT ![t] = @ + 1]
            /\ pc' = [pc EXCEPT ![t] = "writeJson"]
       ELSE /\ pc' = [pc EXCEPT ![t] = "done"]
            /\ UNCHANGED writeCalls
    /\ UNCHANGED <<request, reply, locals, probeCalls, readCalls, mergeCalls, cache>>

\* mergeMetadata resolves: writeJson is called when there is a midhash
MergeOk(t) ==
    /\ pc[t] = "mergeMetadata"
    /\ Settle(t, "mergeMetadata", "value", NoValue, NoError)
    /\ store' = [store EXCEPT ![request[t].cid] = MergeInto(@, metadata[t])]
    /\ merged' = [merged EXCEPT ![t] = TRUE]
    /\ IF HasMidhash(request[t])
       THEN /\ writeCalls' = [writeCalls EXCEPT ![t] = @ + 1]
            /\ pc' = [pc EXCEPT ![t] = "writeJson"]
            /\ UNCHANGED outbox
       ELSE /\ SendCallback(t, Payload(request[t].taskId, "completed", NoText, NoText))
            /\ pc' = [pc EXCEPT ![t] = "done"]
            /\ UNCHANGED writeCalls
    /\ UNCHANGED <<request, reply, locals, probeCalls, readCalls, mergeCalls, cache>>

\* a process that logs the store's failure and carries on
MergeFailIgnored(t, error) ==
    /\ pc[t] = "mergeMetadata"
    /\ Settle(t, "mergeMetadata", "throw", NoValue, error)
    /\ IF HasMidhash(request[t])
       THEN /\ writeCalls' = [writeCalls EXCEPT ![t] = @ + 1]
            /\ pc' = [pc EXCEPT ![t] = "writeJson"]
            /\ UNCHANGED outbox
       ELSE /\ SendCallback(t, Payload(request[t].taskId, "completed", NoText, NoText))
            /\ pc' = [pc EXCEPT ![t] = "done"]
            /\ UNCHANGED writeCalls
    /\ UNCHANGED <<request, reply, locals, probeCalls, readCalls, mergeCalls, merged, cache,
                   store>>

MergeFail(t, error) ==
    /\ pc[t] = "mergeMetadata"
    /\ Settle(t, "mergeMetadata", "throw", NoValue, error)
    /\ Catch(t, error)
    /\ UNCHANGED <<request, reply, locals, counters, cache, store>>

\* writeJson resolves: the entry replaces the file
WriteCacheOk(t) ==
    /\ pc[t] = "writeJson"
    /\ Settle(t, "writeJson", "value", NoValue, NoError)
    /\ cache' = [cache EXCEPT ![TaskFile(t)] = Json(fileinfo[t])]
    /\ SendCallback(t, Payload(request[t].taskId, "completed", NoText, NoText))
    /\ pc' = [pc EXCEPT ![t] = "done"]
    /\ UNCHANGED <<request, reply, locals, counters, store>>

\* writeJson fails inside the try block of process
WriteCacheFail(t, error) ==
    /\ pc[t] = "writeJson"
    /\ Settle(t, "writeJson", "throw", NoValue, error)
    /\ Catch(t, error)
    /\ UNCHANGED <<request, reply, locals, counters, cache, store>>

Next ==
    \E t \in Tasks :
        \/ \E body \in Bodies(t) : Reject(t, body)
        \/ \E req \in Bodies(t) : SkipNotVideo(t, req)
        \/ \E req \in Bodies(t) : SkipAlreadyProcessed(t, req)
        \/ \E req \in Bodies(t) : StartReadCache(t, req)
        \/ \E req \in Bodies(t) : StartProbe(t, req)
        \/ ReadCacheHit(t)
        \/ ReadCacheMiss(t)
        \/ \E error \in IoErrors : ReadCacheThrow(t, error)
        \/ MergeCachedOk(t)
        \/ \E error \in StoreErrors : MergeCachedFail(t, error)
        \/ \E data \in ProbeSamples : ProbeOk(t, data)
        \/ \E error \in Thrown : ProbeFail(t, error)
        \/ MergeOk(t)
        \/ \E error \in StoreErrors : MergeFail(t, error)
        \/ WriteCacheOk(t)
        \/ \E error \in IoErrors : WriteCacheFail(t, error)

Spec == Init /\ [][Next]_vars

\* ------------------------------------------------------------------------
\* Cache round trip: t1 is on the fresh path with midhash h1 and the file is
\* missing, t2 has called readJson for the same midhash and finds the entry
\* t1 writes; the FFprobe record ranges over ProbeRecords
\* ------------------------------------------------------------------------
RoundTripRequest(t) == GoodBody(t)

InitRoundTrip ==
    /\ pc = [t \in Tasks |-> IF t = "t1" THEN "runFFprobe" ELSE "readJson"]
    /\ request = [t \in Tasks |-> RoundTripRequest(t)]
    /\ reply = [t \in Tasks |-> Accepted]
    /\ delivered = [t \in Tasks |-> <<>>]
    /\ cachedData = [t \in Tasks |-> Absent]
    /\ metadata = [t \in Tasks |-> EmptyMap]
    /\ fileinfo = [t \in Tasks |-> NoFileinfo]
    /\ probeCalls = [t \in Tasks |-> IF t = "t1" THEN 1 ELSE 0]
    /\ readCalls = [t \in Tasks |-> 1]
    /\ writeCalls = [t \in Tasks |-> 0]
    /\ mergeCalls = [t \in Tasks |-> <<>>]
    /\ merged = [t \in Tasks |-> FALSE]
    /\ callbacks = [t \in Tasks |-> <<>>]
    /\ settled = [t \in Tasks |->
                    IF t = "t1"
                    THEN <<[op |-> "readJson", outcome |-> "null", value |-> NoValue,
                            error |-> NoError]>>
                    ELSE <<>>]
    /\ store = [c \in Cids |-> EmptyMap]
    /\ cache = [f \in CacheFiles |-> Missing]

NextRoundTrip ==
    \/ \E data \in ProbeRecords : ProbeOk("t1", data)
    \/ MergeOk("t1")
    \/ WriteCacheOk("t1")
    \/ ReadCacheHit("t2")
    \/ MergeCachedOk("t2")

SpecRoundTrip == InitRoundTrip /\ [][NextRoundTrip]_vars

\* ------------------------------------------------------------------------
\* Re-invocation: every request for the file carries, as its existing
\* metadata, what the store holds for it at that time, marked as a video by
\* the file-info plugin, with or without a midhash
\* ------------------------------------------------------------------------
ZeroDurationMp4 ==
    [format |-> [duration |-> Num(0), format_name |-> Str(MovMp4)],
     streams |-> <<SimpleVideo>>]

ReinvokeSamples == {SimpleMp4, NoStreams, ZeroDurationMp4}

\* existingMeta as the dispatcher reads it from the store
StoreMeta(cid, midhash) ==
    [fileType |-> Str(VIDEO),
     fileinfo_duration |-> IF DurationKey \in DOMAIN store[cid]
                           THEN Str(store[cid][DurationKey]) ELSE Absent,
     cid_midhash256 |-> midhash]

ReinvokeRequests(t) ==
    {[GoodBody(t) EXCEPT !.existingMeta = StoreMeta("c1", midhash)] :
        midhash \in {Absent, Str(H1)}}

InitReinvoke ==
    /\ InitTasks
    /\ cache \in [CacheFiles -> InitialContents]
    /\ cache[CacheFile(Str(H2))] = Missing

NextReinvoke ==
    \E t \in Tasks :
        \/ \E req \in ReinvokeRequests(t) : SkipAlreadyProcessed(t, req)
        \/ \E req \in ReinvokeRequests(t) : StartReadCache(t, req)
        \/ \E req \in ReinvokeRequests(t) : StartProbe(t, req)
        \/ ReadCacheHit(t)
        \/ ReadCacheMiss(t)
        \/ \E error \in IoErrors : ReadCacheThrow(t, error)
        \/ MergeCachedOk(t)
        \/ \E error \in StoreErrors : MergeCachedFail(t, error)
        \/ \E data \in ReinvokeSamples : ProbeOk(t, data)
        \/ \E error \in Thrown : ProbeFail(t, error)
        \/ MergeOk(t)
        \/ \E error \in StoreErrors : MergeFail(t, error)
        \/ WriteCacheOk(t)
        \/ \E error \in IoErrors : WriteCacheFail(t, error)

SpecReinvoke == InitReinvoke /\ [][NextReinvoke]_vars

\* ------------------------------------------------------------------------
\* Properties
\* ------------------------------------------------------------------------
Started(t) == pc[t] # "idle"

Done(t) == pc[t] = "done"

SettledAt(t, op, outcome) ==
    {i \in 1..Len(settled[t]) : settled[t][i].op = op /\ settled[t][i].outcome = outcome}

Has(t, op, outcome) == SettledAt(t, op, outcome) # {}

Statuses(t) == {callbacks[t][i].status : i \in 1..Len(callbacks[t])}

Skipped(t, reason) ==
    callbacks[t] = <<[taskId |-> request[t].taskId, status |-> "skipped",
                      reason |-> reason, error |-> ""]>>

Completed(t) ==
    callbacks[t] = <<[taskId |-> request[t].taskId, status |-> "completed",
                      reason |-> "", error |-> ""]>>

Failed(t, text) ==
    callbacks[t] = <<[taskId |-> request[t].taskId, status |-> "failed",
                      reason |-> "", error |-> text]>>

NothingInvoked(t) ==
    /\ probeCalls[t] = 0
    /\ readCalls[t] = 0
    /\ writeCalls[t] = 0
    /\ mergeCalls[t] = <<>>
    /\ settled[t] = <<>>

\* C1: an invocation whose existing metadata does not say fileType 'video'
\* (or has no existing metadata) ends Skipped 'Not a video file', whatever its
\* other fields, and calls neither the probe, the cache nor mergeMetadata.
C1_NotVideoSkipped ==
    \A t \in Tasks :
        (Started(t) /\ FileType(request[t]) # Str(VIDEO))
            => /\ Done(t)
               /\ Skipped(t, "Not a video file")
               /\ NothingInvoked(t)

\* an audio file that carries a duration and a midhash with a stored entry
C1_Witness ==
    \E t \in Tasks :
        /\ Done(t)
        /\ FileType(request[t]) = Str(AUDIO)
        /\ ExistingDuration(request[t]) = Str(<<"2", ".", "0">>)
        /\ Midhash(request[t]) = Str(H1)
        /\ cache[CacheFile(Str(H1))].kind = "json"

\* C2 as stated: a video whose existing metadata has the key
\* fileinfo/duration, whatever its value, ends Skipped 'Already processed'
\* and calls neither the probe, the cache nor mergeMetadata.
C2_AnyDurationSkipped ==
    \A t \in Tasks :
        (/\ Started(t)
         /\ FileType(request[t]) = Str(VIDEO)
         /\ ExistingDuration(request[t]) # Absent)
            => /\ Done(t)
               /\ Skipped(t, "Already processed")
               /\ NothingInvoked(t)

\* C2 amended: a video whose existing metadata has a non-empty
\* fileinfo/duration ends Skipped 'Already processed' and calls neither the
\* probe, the cache nor mergeMetadata.
C2_NonEmptyDurationSkipped ==
    \A t \in Tasks :
        (/\ Started(t)
         /\ FileType(request[t]) = Str(VIDEO)
         /\ ExistingDuration(request[t]) # Absent
         /\ ExistingDuration(request[t]).s # <<>>)
            => /\ Done(t)
               /\ Skipped(t, "Already processed")
               /\ NothingInvoked(t)

\* a processed video that carries a midhash with a stored entry
C2_Witness ==
    \E t \in Tasks :
        /\ Done(t)
        /\ FileType(request[t]) = Str(VIDEO)
        /\ ExistingDuration(request[t]) = Str(<<"2", ".", "0">>)
        /\ Midhash(request[t]) = Str(H1)
        /\ cache[CacheFile(Str(H1))].kind = "json"

\* the maps t1 (fresh) and t2 (cache hit) passed to mergeMetadata
FreshMap == mergeCalls["t1"][1]

CachedMap == mergeCalls["t2"][1]

BothPublished == Len(mergeCalls["t1"]) = 1 /\ Len(mergeCalls["t2"]) = 1

\* C3: the map applyCachedMetadata publishes from the entry the fresh path
\* wrote equals, key for key and text for text, the map the fresh path
\* published for the same FFprobe record.
C3_CacheRoundTrip == BothPublished => CachedMap = FreshMap

RECURSIVE UntilQuote(_)
UntilQuote(text) ==
    IF text = <<>> \/ Head(text) = "\"" THEN <<>>
    ELSE <<Head(text)>> \o UntilQuote(Tail(text))

\* the 'type' a published stream record starts with: {"type":"<type>",...
TypeOfRecord(json) == UntilQuote(SubSeq(json, 7, Len(json)))

StreamKeys(map) == {StreamKey(n) : n \in 0..MaxStreams} \cap DOMAIN map

\* C4: on a cache hit stream/n has the 'type' the fresh probe published at
\* stream/n, for every n and every order of the categories in the record.
C4_CacheHitKeepsProbeOrder ==
    BothPublished =>
        /\ StreamKeys(CachedMap) = StreamKeys(FreshMap)
        /\ \A key \in StreamKeys(FreshMap) :
               TypeOfRecord(CachedMap[key]) = TypeOfRecord(FreshMap[key])

CacheHit(t) ==
    /\ FileType(request[t]) = Str(VIDEO)
    /\ ~Truthy(ExistingDuration(request[t]))
    /\ Truthy(Midhash(request[t]))
    /\ Has(t, "readJson", "value")

EntryRead(t) == settled[t][CHOOSE i \in SettledAt(t, "readJson", "value") : TRUE].value

\* C5 as stated: on a cache hit the invocation never probes, passes the map
\* rebuilt from the entry to mergeMetadata once, and ends Completed.
C5_CacheHitCompletes ==
    \A t \in Tasks :
        CacheHit(t)
            => /\ probeCalls[t] = 0
               /\ mergeCalls[t] = <<ApplyCachedMap(EntryRead(t))>>
               /\ Done(t) => Completed(t)

\* C5 amended: on a cache hit the invocation never probes and passes the map
\* rebuilt from the entry to mergeMetadata once; it ends Completed, with the
\* map merged into the store, when that call succeeds and Failed with the
\* store's error when it fails.
C5_CacheHitPublishesOnce ==
    \A t \in Tasks :
        CacheHit(t)
            => /\ probeCalls[t] = 0
               /\ writeCalls[t] = 0
               /\ mergeCalls[t] = <<ApplyCachedMap(EntryRead(t))>>
               /\ Done(t) =>
                      \/ /\ Has(t, "mergeMetadata", "value")
                         /\ Completed(t)
                         /\ \A key \in DOMAIN mergeCalls[t][1] :
                                key \in DOMAIN store[request[t].cid]
                      \/ /\ Has(t, "mergeMetadata", "throw")
                         /\ \E error \in StoreErrors : Failed(t, error.text)

\* a cache hit that ended Completed
C5_Witness ==
    \E t \in Tasks :
        /\ CacheHit(t)
        /\ Done(t)
        /\ Completed(t)
        /\ DurationKey \in DOMAIN store[request[t].cid]

ThrownBy(t, op) == settled[t][CHOOSE i \in SettledAt(t, op, "throw") : TRUE].error

\* C6: when the probe fails the invocation ends Failed with the probe's
\* error text in the callback's error field, and has made no mergeMetadata
\* call and no cache write.
C6_ProbeFailureFails ==
    \A t \in Tasks :
        Has(t, "runFFprobe", "throw")
            => /\ Done(t)
               /\ Failed(t, ThrownBy(t, "runFFprobe").text)
               /\ mergeCalls[t] = <<>>
               /\ ~merged[t]
               /\ writeCalls[t] = 0

\* a probe that rejected with something that is no Error, after a cache miss
C6_Witness ==
    \E t \in Tasks :
        /\ Done(t)
        /\ Has(t, "readJson", "null")
        /\ Has(t, "runFFprobe", "throw")
        /\ ~ThrownBy(t, "runFFprobe").instanceofError

\* C7: when mergeMetadata succeeded on the fresh path and the writeJson that
\* follows fails, the invocation still reports 'completed', never 'failed'.
C7_CacheWriteFailureNotFatal ==
    \A t \in Tasks :
        (/\ Done(t)
         /\ Has(t, "runFFprobe", "value")
         /\ Has(t, "mergeMetadata", "value")
         /\ Has(t, "writeJson", "throw"))
            => Statuses(t) = {"completed"}

\* C8: a readJson that fails is a cache miss: the invocation goes on to a
\* fresh probe and the failure never makes it end Failed.
C8_CacheReadFailureIsMiss ==
    \A t \in Tasks :
        Has(t, "readJson", "throw")
            => /\ probeCalls[t] = 1
               /\ "failed" \in Statuses(t) => Has(t, "runFFprobe", "throw")
                                              \/ Has(t, "mergeMetadata", "throw")

\* C9: when mergeMetadata fails, on either path, the invocation ends Failed:
\* no 'completed' callback, no second mergeMetadata call, no cache write.
C9_PublishFailureFails ==
    \A t \in Tasks :
        Has(t, "mergeMetadata", "throw")
            => /\ Done(t)
               /\ Failed(t, ThrownBy(t, "mergeMetadata").text)
               /\ Len(mergeCalls[t]) = 1
               /\ ~merged[t]
               /\ writeCalls[t] = 0
               /\ ~Has(t, "writeJson", "value")

\* the store failed one invocation on the fresh path, with a midhash, and
\* another on the cache-hit path
C9_Witness ==
    \E a, b \in Tasks :
        /\ Has(a, "mergeMetadata", "throw")
        /\ Has(a, "runFFprobe", "value")
        /\ HasMidhash(request[a])
        /\ Has(b, "mergeMetadata", "throw")
        /\ Has(b, "readJson", "value")

\* C10: an invocation makes at most one mergeMetadata call; one that ends
\* Completed made exactly one, which succeeded; one that ends Skipped or
\* Failed made none that succeeded.
C10_OneMergePerInvocation ==
    \A t \in Tasks :
        /\ Len(mergeCalls[t]) <= 1
        /\ (Done(t) /\ "completed" \in Statuses(t))
               => Len(mergeCalls[t]) = 1 /\ merged[t]
        /\ (Done(t) /\ Statuses(t) \cap {"skipped", "failed"} # {}) => ~merged[t]

AwaitedCalls == {"readJson", "runFFprobe", "mergeMetadata", "writeJson"}

\* the call the invocation is suspended at can resolve or reject (the guard
\* of ReadCacheHit is written out)
CanSettle(t) ==
    \/ pc[t] = "readJson" /\ cache[TaskFile(t)].kind = "json"
    \/ ENABLED ReadCacheMiss(t)
    \/ ENABLED (\E error \in IoErrors : ReadCacheThrow(t, error))
    \/ ENABLED MergeCachedOk(t)
    \/ ENABLED (\E error \in StoreErrors : MergeCachedFail(t, error))
    \/ ENABLED (\E data \in ProbeSamples : ProbeOk(t, data))
    \/ ENABLED (\E error \in Thrown : ProbeFail(t, error))
    \/ ENABLED MergeOk(t)
    \/ ENABLED (\E error \in StoreErrors : MergeFail(t, error))
    \/ ENABLED WriteCacheOk(t)
    \/ ENABLED (\E error \in IoErrors : WriteCacheFail(t, error))

\* C11: every started invocation ends in one of Completed, Skipped, Failed
\* and sends one callback: never two, never none once it has ended, whichever
\* of the cache read, the probe, the publish, the cache write or the delivery
\* of the callback fails. An invocation that has not ended is suspended at a
\* call that can settle, and it awaits each of its four calls at most once,
\* so it ends once its calls have settled.
C11_OneTerminalCallback ==
    \A t \in Tasks :
        /\ Len(callbacks[t]) <= 1
        /\ Done(t) <=> Len(callbacks[t]) = 1
        /\ Done(t) => callbacks[t][1].status \in {"completed", "skipped", "failed"}
        /\ Len(delivered[t]) = Len(callbacks[t])
        /\ Started(t) => (Done(t) <=> ~CanSettle(t))
        /\ \A i \in 1..Len(settled[t]) :
               /\ settled[t][i].op \in AwaitedCalls
               /\ \A j \in 1..Len(settled[t]) :
                      settled[t][i].op = settled[t][j].op => i = j

\* one invocation failed at the cache write and its callback was lost, the
\* other completed
C11_Witness ==
    \E a, b \in Tasks :
        /\ Done(a)
        /\ Has(a, "writeJson", "throw")
        /\ delivered[a] = <<FALSE>>
        /\ Done(b)
        /\ Completed(b)

\* the record runFFprobe returned to the invocation
Probed(t) == settled[t][CHOOSE i \in SettledAt(t, "runFFprobe", "value") : TRUE].value

KnownTypes == {VIDEO, AUDIO, SUBTITLE, EMBEDDEDIMAGE}

IsRetained(stream) ==
    /\ stream # Absent
    /\ stream.codec_type \in {Str(type) : type \in KnownTypes}

\* the streams of the record that have one of the four categories
Retained(t) == SelectSeq(Probed(t).streams, IsRetained)

KeyAt(json, key) ==
    {i \in 2..(Len(json) - 2) :
        json[i] = key /\ json[i - 1] = "\"" /\ json[i + 1] = "\"" /\ json[i + 2] = ":"}

HasField(json, key) == KeyAt(json, key) # {}

RECURSIVE UntilComma(_)
UntilComma(text) ==
    IF text = <<>> \/ Head(text) \in {",", "}"} THEN <<>>
    ELSE <<Head(text)>> \o UntilComma(Tail(text))

\* the text of a field of a published record, without the quotes of a string
JsonField(json, key) ==
    LET i == CHOOSE k \in KeyAt(json, key) : TRUE
    IN  IF json[i + 3] = "\"" THEN UntilQuote(SubSeq(json, i + 4, Len(json)))
        ELSE UntilComma(SubSeq(json, i + 3, Len(json)))

StreamRecords(map) == {map[key] : key \in DOMAIN map \ {DurationKey, FormatNameKey}}

SentinelFree(json) ==
    /\ \A key \in {"width", "height", "bitrate"} :
           HasField(json, key) => JsonField(json, key) # NA
    /\ HasField(json, "frameRate") => JsonField(json, "frameRate") # ZeroRate

\* the field maps of a cache object
FieldMaps(info) ==
    UNION {{info.streamdetails[type][k] : k \in DOMAIN info.streamdetails[type]} :
              type \in DOMAIN info.streamdetails}

SentinelFreeFields(fields) ==
    \A i \in 1..Len(fields) :
        /\ fields[i][1] \in {"width", "height", "bitrate"} => fields[i][2] # NA
        /\ fields[i][1] = "frameRate" => fields[i][2] # ZeroRate

\* a raw field that is truthy and not its sentinel is in the record
Recorded(json, key, raw, sentinel) ==
    IF Truthy(raw) /\ raw # Str(sentinel)
    THEN HasField(json, key) /\ JsonField(json, key) = raw.s
    ELSE ~HasField(json, key)

\* C13: no stream record published and no field map written to the cache has
\* width, height or bitrate 'N/A' or frameRate '0/0'; on the fresh path each
\* of these four fields is in the record of a stream exactly when its raw
\* value is truthy and not the sentinel, then with the raw value, and the
\* codec and the index of the stream are recorded whatever the four hold.
C13_SentinelsFiltered ==
    /\ \A t \in Tasks : \A i \in 1..Len(mergeCalls[t]) :
           \A json \in StreamRecords(mergeCalls[t][i]) : SentinelFree(json)
    /\ \A cid \in Cids : \A json \in StreamRecords(store[cid]) : SentinelFree(json)
    /\ \A file \in CacheFiles :
           cache[file].kind = "json" =>
               \A fields \in FieldMaps(cache[file].value) : SentinelFreeFields(fields)
    /\ Has("t1", "runFFprobe", "value") =>
           \A n \in 0..(Len(Retained("t1")) - 1) :
               LET stream == Retained("t1")[n + 1]
                   json == metadata["t1"][StreamKey(n)]
               IN  /\ Recorded(json, "width", stream.width, NA)
                   /\ Recorded(json, "height", stream.height, NA)
                   /\ Recorded(json, "bitrate", stream.bit_rate, NA)
                   /\ Recorded(json, "frameRate", stream.avg_frame_rate, ZeroRate)
                   /\ Truthy(stream.codec_name) =>
                          JsonField(json, "codec") = stream.codec_name.s
                   /\ NotNull(stream.index) =>
                          JsonField(json, "index") = stream.index.s

\* a stream with width 'N/A', avg_frame_rate '0/0', a height and a bit rate
\* was probed, written to the cache and published from the entry
C13_Witness ==
    /\ Has("t1", "runFFprobe", "value")
    /\ Probed("t1").streams = <<HalfSentinelStream>>
    /\ HasField(metadata["t1"][StreamKey(0)], "height")
    /\ HasField(metadata["t1"][StreamKey(0)], "bitrate")
    /\ cache[CacheFile(Str(H1))].kind = "json"
    /\ Len(mergeCalls["t2"]) = 1
    /\ StreamKey(0) \in DOMAIN store["c1"]

\* the retained streams of one category, in probe order
OfCategory(t, type) ==
    SelectSeq(Retained(t), LAMBDA stream : stream.codec_type = Str(type))

\* the retained streams in the order of the cache object: category by
\* category, each in probe order
Regrouped(t) ==
    OfCategory(t, VIDEO) \o OfCategory(t, AUDIO) \o OfCategory(t, SUBTITLE)
    \o OfCategory(t, EMBEDDEDIMAGE)

\* the record has the flag as a JSON boolean exactly when the raw flag is
\* not null: true for 1, false for 0
FlagRecorded(json, key, raw) ==
    IF NotNull(raw)
    THEN /\ HasField(json, key)
         /\ json[(CHOOSE i \in KeyAt(json, key) : TRUE) + 3] # "\""
         /\ raw = Num(1) => JsonField(json, key) = TrueText
         /\ raw = Num(0) => JsonField(json, key) = FalseText
    ELSE ~HasField(json, key)

\* the field map has the flag as the text 'true' or 'false'
FlagCached(fields, key, raw) ==
    IF NotNull(raw)
    THEN \E i \in 1..Len(fields) :
             /\ fields[i][1] = key
             /\ raw = Num(1) => fields[i][2] = TrueText
             /\ raw = Num(0) => fields[i][2] = FalseText
    ELSE \A i \in 1..Len(fields) : fields[i][1] # key

\* C14: the record of every retained stream has 'forced' exactly when the
\* raw disposition.forced is not null, true for 1 and false for 0, and
\* 'default' likewise from disposition.default; a stream without a
\* disposition block has neither; the cache holds the flag as the text
\* 'true' or 'false' and the record published from the entry has the same
\* boolean.
C14_DispositionCoerced ==
    /\ Has("t1", "runFFprobe", "value") =>
           /\ \A n \in 0..(Len(Retained("t1")) - 1) :
                  LET stream == Retained("t1")[n + 1]
                      json == metadata["t1"][StreamKey(n)]
                  IN  /\ FlagRecorded(json, "forced", OptGet(stream.disposition, "forced"))
                      /\ FlagRecorded(json, "default",
                                      OptGet(stream.disposition, "default"))
           /\ \A type \in KnownTypes : \A k \in 0..(Len(OfCategory("t1", type)) - 1) :
                  LET stream == OfCategory("t1", type)[k + 1]
                      fields == fileinfo["t1"].streamdetails[type][k]
                  IN  /\ FlagCached(fields, "forced", OptGet(stream.disposition, "forced"))
                      /\ FlagCached(fields, "default",
                                    OptGet(stream.disposition, "default"))
    /\ Len(mergeCalls["t2"]) = 1 =>
           \A n \in 0..(Len(Regrouped("t1")) - 1) :
               LET stream == Regrouped("t1")[n + 1]
                   json == CachedMap[StreamKey(n)]
               IN  /\ FlagRecorded(json, "forced", OptGet(stream.disposition, "forced"))
                   /\ FlagRecorded(json, "default", OptGet(stream.disposition, "default"))

\* forced 1 with default 0, and forced 0 with no default, went through the
\* cache
C14_Witness ==
    /\ Len(mergeCalls["t2"]) = 1
    /\ MaxStreams >= 2
    /\ Probed("t1").streams =
           <<Typed(FlaggedStream, Str(SUBTITLE)), Typed(ZeroStream, Str(VIDEO))>>
    /\ JsonField(CachedMap[StreamKey(1)], "forced") = TrueText
    /\ JsonField(CachedMap[StreamKey(0)], "forced") = FalseText

Wrote(t) == Has(t, "writeJson", "value")

\* the file named after the midhash of the invocation
FileOf(t) == CacheFile(Midhash(request[t]))

\* the invocations that wrote the file of t
WritersOf(t) ==
    {u \in Tasks : Wrote(u) /\ Midhash(request[u]) = Midhash(request[t])}

\* C15: when invocations for one midhash got the same FFprobe record, both
\* may miss the cache and both write it, and in every interleaving the
\* entry of that midhash is the entry one of them alone writes; an
\* invocation overwrites only the entry of its own midhash and reads only
\* what was stored under its own midhash.
C15_ConcurrentWritesAgree ==
    \A a \in Tasks :
        /\ (Wrote(a) /\ \A b \in WritersOf(a) : Probed(b) = Probed(a))
               => /\ cache[FileOf(a)] = Json(fileinfo[a])
                  /\ cache[FileOf(a)] = Json(FreshResult(Probed(a)).fileinfo)
        /\ Has(a, "readJson", "value")
               => EntryRead(a) \in {content.value : content \in InitialContents}
                                   \cup {fileinfo[b] : b \in WritersOf(a)}

\* both invocations missed the entry of h1, probed the same record and wrote
C15_Witness ==
    \E a, b \in Tasks :
        /\ a # b
        /\ Midhash(request[a]) = Str(H1)
        /\ Midhash(request[b]) = Str(H1)
        /\ Has(a, "readJson", "null")
        /\ Has(b, "readJson", "null")
        /\ Wrote(a)
        /\ Wrote(b)
        /\ Probed(a) = Probed(b)

\* C16: in the cache object the fresh path builds and writes, the keys of
\* each category are 0 .. (number of retained streams of that category) - 1,
\* key k holds the fields of the k-th stream of the category in probe order,
\* whatever streams of other categories or of unknown type stand before it,
\* and a category without streams has no entry.
C16_CategoryKeysContiguous ==
    Has("t1", "runFFprobe", "value") =>
        /\ DOMAIN fileinfo["t1"].streamdetails
               = {type \in KnownTypes : OfCategory("t1", type) # <<>>}
        /\ \A type \in DOMAIN fileinfo["t1"].streamdetails :
               /\ DOMAIN fileinfo["t1"].streamdetails[type]
                      = 0..(Len(OfCategory("t1", type)) - 1)
               /\ \A k \in 0..(Len(OfCategory("t1", type)) - 1) :
                      fileinfo["t1"].streamdetails[type][k]
                          = StreamCacheOf(BuildStreamData(OfCategory("t1", type)[k + 1],
                                                          Str(type)))
        /\ Wrote("t1") => cache[FileOf("t1")] = Json(fileinfo["t1"])

\* a video stream that stands after a stream of type 'data' or an audio
\* stream, written to the cache under key 0
C16_Witness ==
    /\ Wrote("t1")
    /\ MaxStreams >= 2
    /\ \E i \in 1..(Len(Probed("t1").streams) - 1) :
           /\ Probed("t1").streams[i] \in {SimpleAudio, Typed(SimpleVideo, Str(DataType))}
           /\ Probed("t1").streams[i + 1] = SimpleVideo
    /\ 0 \in DOMAIN cache[FileOf("t1")].value.streamdetails[VIDEO]

\* the order in which process makes its calls
RankOf == [readJson |-> 1, runFFprobe |-> 2, mergeMetadata |-> 3, writeJson |-> 4]

CallsMade(t) == readCalls[t] + probeCalls[t] + Len(mergeCalls[t]) + writeCalls[t]

\* C17: the calls of one invocation do not overlap and follow one order: at
\* most one call is outstanding; the probe is called only after the cache
\* read has settled, mergeMetadata only after the probe has returned,
\* writeJson only after mergeMetadata has succeeded, and 'completed' is sent
\* on the fresh path only after the publish and, when there is a midhash,
\* the cache write have finished.
C17_StepsOrdered ==
    \A t \in Tasks :
        /\ CallsMade(t) - Len(settled[t]) \in {0, 1}
        /\ CallsMade(t) - Len(settled[t]) = 1 <=> (Started(t) /\ ~Done(t))
        /\ \A i, j \in 1..Len(settled[t]) :
               i < j => RankOf[settled[t][i].op] < RankOf[settled[t][j].op]
        /\ (probeCalls[t] = 1 /\ Truthy(Midhash(request[t])))
               => Has(t, "readJson", "null")
        /\ (probeCalls[t] = 1 /\ Len(mergeCalls[t]) = 1)
               => Has(t, "runFFprobe", "value")
        /\ writeCalls[t] = 1
               => Has(t, "runFFprobe", "value") /\ Has(t, "mergeMetadata", "value")
        /\ (probeCalls[t] = 1 /\ "completed" \in Statuses(t))
               => /\ Has(t, "mergeMetadata", "value")
                  /\ Truthy(Midhash(request[t])) => Wrote(t)

\* a fresh-path invocation with a midhash that made its four calls and ended
\* Completed
C17_Witness ==
    \E t \in Tasks :
        /\ Completed(t)
        /\ Len(settled[t]) = 4
        /\ settled[t][1].op = "readJson"
        /\ settled[t][4].op = "writeJson"

\* the step that changes a cache file is the cache write of a fresh-path
\* invocation for that file, after its publish succeeded
WrittenByFreshPath(file) ==
    \E t \in Tasks :
        /\ pc[t] = "writeJson"
        /\ pc'[t] = "done"
        /\ Truthy(Midhash(request[t]))
        /\ FileOf(t) = file
        /\ Has(t, "readJson", "null")
        /\ Has(t, "runFFprobe", "value")
        /\ Has(t, "mergeMetadata", "value")
        /\ merged[t]
        /\ cache'[file] = Json(fileinfo[t])

\* C18: a cache entry changes only in the cache write of a fresh-path
\* invocation that carries a midhash and whose mergeMetadata succeeded, and
\* only the entry of that midhash; an invocation that is skipped, hits the
\* cache, fails at the probe or at the publish, or carries no midhash makes
\* no cache write, and one without a midhash makes no cache read either.
C18_CacheWrittenOnlyAfterPublish ==
    /\ [][\A file \in CacheFiles :
             cache'[file] # cache[file] => WrittenByFreshPath(file)]_vars
    /\ [](\A t \in Tasks :
             /\ writeCalls[t] > 0 =>
                    /\ Truthy(Midhash(request[t]))
                    /\ Has(t, "readJson", "null")
                    /\ Has(t, "runFFprobe", "value")
                    /\ Has(t, "mergeMetadata", "value")
                    /\ Statuses(t) \cap {"skipped"} = {}
             /\ (Started(t) /\ ~Truthy(Midhash(request[t]))) =>
                    readCalls[t] = 0 /\ writeCalls[t] = 0)

\* with a stored entry for h1 and none for h2: one invocation hit the entry
\* of h1, the other failed at the publish, and both files are as they were
C18_Witness ==
    \E a, b \in Tasks :
        /\ Done(a)
        /\ Has(a, "readJson", "value")
        /\ Midhash(request[a]) = Str(H1)
        /\ Done(b)
        /\ Midhash(request[b]) = Str(H2)
        /\ Has(b, "mergeMetadata", "throw")
        /\ cache[CacheFile(Str(H2))] = Missing
        /\ cache[CacheFile(Str(H1))].kind = "json"

\* the invocation ended Completed and the map it published has a duration
PublishedDuration(t) ==
    /\ Completed(t)
    /\ Len(mergeCalls[t]) = 1
    /\ DurationKey \in DOMAIN mergeCalls[t][1]

\* C19: once an invocation has ended Completed, by probe or by cache hit,
\* with fileinfo/duration in the map it published, every invocation started
\* afterwards for the file with the store's metadata ends at once Skipped
\* 'Already processed', without a cache read, a probe or a mergeMetadata
\* call; so also when the duration published is 0.
C19_ReinvocationSkipped ==
    [][\A a, b \in Tasks :
          (/\ PublishedDuration(a)
           /\ pc[b] = "idle"
           /\ pc'[b] # "idle"
           /\ request'[b].existingMeta
                  = StoreMeta(request'[b].cid, Midhash(request'[b])))
              => /\ pc'[b] = "done"
                 /\ Skipped(b, "Already processed")'
                 /\ NothingInvoked(b)']_vars

\* a probe published the duration 0 and the invocation that followed, with a
\* midhash whose entry is stored, was skipped
C19_Witness ==
    \E a, b \in Tasks :
        /\ PublishedDuration(a)
        /\ Has(a, "runFFprobe", "value")
        /\ mergeCalls[a][1][DurationKey] = <<"0">>
        /\ Skipped(b, "Already processed")
        /\ ExistingDuration(request[b]) = Str(<<"0">>)
        /\ Midhash(request[b]) = Str(H1)
        /\ cache[CacheFile(Str(H1))].kind = "json"

\* a required field is not in the body or is empty
LacksField(body) ==
    \E name \in RequiredFields : name \in body.absent \/ body[name] = ""

\* the terminal state the calls of the invocation lead to
OutcomeOf(t) ==
    IF settled[t] = <<>> /\ CallsMade(t) = 0 THEN "skipped"
    ELSE IF \E i \in 1..Len(settled[t]) : settled[t][i].outcome = "throw" THEN "failed"
    ELSE "completed"

\* C20: a body that lacks one of taskId, cid, filePath, callbackUrl,
\* metaCoreUrl, or has it empty, is answered 'rejected': no invocation is
\* started, nothing is published and no callback is sent. Every other body
\* is answered 'accepted' in the step that starts its one invocation, before
\* that invocation has ended, and the answer never changes. A callback that
\* is not delivered leaves the outcome as it is and is followed by no other
\* callback.
C20_RejectOrAcceptOnce ==
    /\ [](\A t \in Tasks :
             /\ (reply[t] # NoReply /\ LacksField(request[t]))
                    => /\ reply[t] = Rejected
                       /\ ~Started(t)
                       /\ NothingInvoked(t)
                       /\ callbacks[t] = <<>>
                       /\ delivered[t] = <<>>
             /\ (reply[t] # NoReply /\ ~LacksField(request[t]))
                    => /\ reply[t] = Accepted
                       /\ Started(t)
             /\ Started(t) => reply[t] = Accepted
             /\ Len(delivered[t]) = Len(callbacks[t])
             /\ Len(callbacks[t]) <= 1
             /\ Done(t) => callbacks[t][1].status = OutcomeOf(t))
    /\ [][\A t \in Tasks :
             /\ reply[t] # NoReply => reply'[t] = reply[t]
             /\ (reply[t] = NoReply /\ reply'[t] = Accepted)
                    => pc[t] = "idle" /\ pc'[t] # "idle"
             /\ pc[t] = "idle" /\ pc'[t] # "idle" => reply'[t] = Accepted]_vars

\* a body with an empty callbackUrl was rejected, and a full body was
\* accepted: its invocation failed at the probe and the callback was lost
C20_Witness ==
    \E a, b \in Tasks :
        /\ reply[a] = Rejected
        /\ request[a].callbackUrl = ""
        /\ request[a].absent = {}
        /\ reply[b] = Accepted
        /\ Has(b, "runFFprobe", "throw")
        /\ delivered[b] = <<FALSE>>

====
